---- MODULE Spec2Model ----
(***************************************************************************)
(* Pteros trajectory processor: the frame filter, the reader thread, the   *)
(* dispatcher of Trajectory_processor::run (single-consumer drain and      *)
(* N-way fan-out) and the bounded message channel they communicate by.     *)
(*                                                                         *)
(* Times are modelled as integers (one unit = one tick of simulation time).*)
(* A shared_ptr<Data_container> is a sequence: <<>> is the null pointer    *)
(* and <<e>> points to the container whose frame_info is e.                *)
(***************************************************************************)
EXTENDS Integers, Sequences, FiniteSets, TLC

\* ------------------------------------------------------------------ bounds
MaxConsumers == 3      \* add_consumer is called at most this many times
MaxBuf == 2            \* buffer_size option ranges over 1..MaxBuf
MaxFrames == 3         \* frames held by the trajectory files of one run
MaxFiles == 3          \* files named in the trajectory option (SpecFiles)
MaxIdx == 2            \* frame indexes / option values tried on the filter

\* ----------------------------------------------------------------- helpers
\* C++ integer remainder (truncation toward zero), b # 0
CRem(a, b) ==
    LET ma == IF a < 0 THEN -a ELSE a
        mb == IF b < 0 THEN -b ELSE b
    IN  IF a < 0 THEN -(ma % mb) ELSE ma % mb

RECURSIVE SumSeq(_)
SumSeq(s) == IF s = <<>> THEN 0 ELSE Head(s) + SumSeq(Tail(s))

\* is p a prefix of s
IsPrefix(p, s) == Len(p) <= Len(s) /\ SubSeq(s, 1, Len(p)) = p

\* ------------------------------------------------------------------ state
VARIABLES
    opt,              \* the option tree given to the processor (values or -1)
    src,              \* the files named by --trajectory and what reading them gives
    build,            \* what the compiled program does where C++ leaves it undefined
    cfg,              \* member fields first_frame .. window_size_time
    consumers,        \* vector<Consumer_base*>, each with the id set_id gave it
    channel,          \* the reader's Data_channel
    worker_channels,  \* vector<Data_channel_ptr> of the fan-out
    rd,               \* reader thread: position and locals of reader_thread_body
    mn,               \* thread calling run(): position and locals
    wk,               \* worker threads: position of Consumer_base::run_in_thread
    hooks,            \* per consumer, the hook calls made so far
    published,        \* history: envelopes the reader enqueued on channel
    taken,            \* history: envelopes run() received from channel
    forwarded,        \* history: per worker channel, envelopes enqueued
    delivered,        \* history: per worker channel, envelopes received
    recv,             \* history: per channel, the outcome of its last recieve
    crashed,          \* the process was killed (trap, terminate)
    probe,            \* filter harness: the call made and its result
    sys,              \* per consumer, what its System holds
    io,               \* history: files loaded and opened, frames read, in order
    stops,            \* history: per worker channel, the send_stop calls of run()
    threads,          \* history: the threads run() has started, in order
    callers,          \* history: per consumer, the threads its hooks were called on
    envelopes,        \* the Data_container objects allocated, by address
    sent              \* history: the addresses of the envelopes published

vars == <<opt, src, build, cfg, consumers, channel, worker_channels, rd, mn, wk,
          hooks, published, taken, forwarded, delivered, recv, crashed, probe,
          sys, io, stops, threads, callers, envelopes, sent>>

inputVars == <<opt, src, build>>
histVars == <<published, taken, forwarded, delivered, recv>>
logVars == <<sys, io, stops>>
objVars == <<threads, callers, envelopes, sent>>

\* ---------------------------------------------------------- Data_channel
\* The message channel (pteros/analysis/message_channel.h) after the
\* component design of the bounded channel: a FIFO queue q, the
\* stop flag set by send_stop and the capacity set by set_buffer_size.
NewChannel == [q |-> <<>>, stop |-> FALSE, cap |-> 0]

set_buffer_size(ch, n) == [ch EXCEPT !.cap = n]

\* send blocks while the buffer is at capacity and the channel is open
send_returns(ch) == ch.stop \/ Len(ch.q) < ch.cap

\* send returns once enqueued, or immediately if closed for send
send_enqueues(ch) == ~ch.stop

\* mutant: the new item is put at the front of the queue
send_front(ch, x) == IF send_enqueues(ch) THEN [ch EXCEPT !.q = <<x>> \o @] ELSE ch

send(ch, x) == IF send_enqueues(ch) THEN [ch EXCEPT !.q = Append(@, x)] ELSE ch

\* mutant: recieve waits for an item whether or not the channel is stopped
recieve_returns_item_only(ch) == ch.q # <<>>

\* recieve blocks while the buffer is empty and the channel is open
recieve_returns(ch) == ch.q # <<>> \/ ch.stop

\* mutant: recieve reports closed as soon as stop was sent
recieve_ok_unless_stopped(ch) == ch.q # <<>> /\ ~ch.stop

\* the bool recieve returns: false only when stopped and drained
recieve_ok(ch) == ch.q # <<>>

\* the value recieve stores in its argument (left alone when it returns false)
recieve_data(ch, old) == IF recieve_ok(ch) THEN <<Head(ch.q)>> ELSE old

\* mutant: recieve hands out the oldest item and drops what else is buffered
recieve_clears(ch) == IF recieve_ok(ch) THEN [ch EXCEPT !.q = <<>>] ELSE ch

recieve(ch) == IF recieve_ok(ch) THEN [ch EXCEPT !.q = Tail(@)] ELSE ch

\* mutant: send_stop flips the flag
send_stop_toggle(ch) == [ch EXCEPT !.stop = ~@]

send_stop(ch) == [ch EXCEPT !.stop = TRUE]

empty(ch) == ch.q = <<>>

\* history record of one recieve call on ch
RecvRecord(ch) ==
    [called |-> TRUE, ok |-> recieve_ok(ch),
     item |-> IF recieve_ok(ch) THEN <<Head(ch.q)>> ELSE <<>>,
     wasStopped |-> ch.stop, wasQ |-> ch.q]

NoRecv == [called |-> FALSE, ok |-> FALSE, item |-> <<>>,
           wasStopped |-> FALSE, wasQ |-> <<>>]

\* ----------------------------------------------------------- Frame filter
\* fr%skip with skip = 0 is undefined. What a build does with it: the
\* division traps and the process is killed ("trap"), or the remainder
\* comes out as 0 ("zero") or as the dividend ("dividend").
Builds == {[rem0 |-> r] : r \in {"trap", "zero", "dividend"}}

\* mutant: the stride is counted from first_frame
is_frame_valid_relative(fr, t) ==
    IF ~(cfg.first_frame < 0 \/ fr >= cfg.first_frame) THEN "false"
    ELSE IF ~(cfg.first_time < 0 \/ t >= cfg.first_time) THEN "false"
    ELSE IF cfg.skip < 0 THEN "true"
    ELSE IF cfg.skip = 0
         THEN (IF build.rem0 = "trap" THEN "trap"
               ELSE IF build.rem0 = "zero" \/ fr = 0 THEN "true" ELSE "false")
    ELSE IF CRem(fr - (IF cfg.first_frame < 0 THEN 0 ELSE cfg.first_frame),
                 cfg.skip) = 0 THEN "true" ELSE "false"

\* is_frame_valid(fr, t): "true", "false", or "trap" where evaluating it
\* kills the process
is_frame_valid(fr, t) ==
    IF ~(cfg.first_frame < 0 \/ fr >= cfg.first_frame) THEN "false"
    ELSE IF ~(cfg.first_time < 0 \/ t >= cfg.first_time) THEN "false"
    ELSE IF cfg.skip < 0 THEN "true"
    ELSE IF cfg.skip = 0
         THEN (IF build.rem0 = "trap" THEN "trap"
               ELSE IF build.rem0 = "zero" \/ fr = 0 THEN "true" ELSE "false")
    ELSE IF CRem(fr, cfg.skip) = 0 THEN "true" ELSE "false"

\* mutant: the bounds are compared without asking whether they were given
is_end_of_interval_unguarded(fr, t) ==
    \/ fr > cfg.last_frame
    \/ t > cfg.last_time

is_end_of_interval(fr, t) ==
    \/ (fr > cfg.last_frame /\ cfg.last_frame >= 0)
    \/ (t > cfg.last_time /\ cfg.last_time >= 0)

\* ------------------------------------------------------------------ inputs
NoOptions ==
    [first_frame |-> -1, last_frame |-> -1, first_time |-> -1, last_time |-> -1,
     skip |-> -1, custom_start_time |-> -1, custom_dt |-> -1,
     window_size_frames |-> -1, window_size_time |-> -1,
     buffer_size |-> 1, log_interval |-> -1]

\* selection ranges tried on whole runs
RangeOptions ==
    { NoOptions,
      [NoOptions EXCEPT !.last_frame = 1],
      [NoOptions EXCEPT !.first_frame = 1, !.skip = 2],
      [NoOptions EXCEPT !.custom_start_time = 1, !.last_time = 2],
      [NoOptions EXCEPT !.first_time = 1, !.window_size_frames = 2],
      [NoOptions EXCEPT !.first_frame = 2, !.last_frame = 1],
      [NoOptions EXCEPT !.skip = 0],
      [NoOptions EXCEPT !.custom_start_time = 1, !.custom_dt = 2, !.last_time = 4],
      [NoOptions EXCEPT !.skip = 2, !.last_time = 0],
      [NoOptions EXCEPT !.first_time = 2, !.last_time = 1] }

\* a trajectory file is the sequence of the times embedded in its frames
MkFile(start, n) == [i \in 1..n |-> start + i - 1]

TrajFileLists ==
    {<<>>}
    \cup { <<MkFile(0, n)>> : n \in 0..MaxFrames }
    \cup { <<MkFile(0, 1), MkFile(s, MaxFrames - 1)>> : s \in {0, 1} }
    \cup { <<MkFile(0, MaxFrames - 1), MkFile(0, 1)>> }

TotalFrames(files) == SumSeq([i \in 1..Len(files) |-> Len(files[i])])

\* a value of the trajectory option: a file, of the kind recognize_format
\* gives it, and for a trajectory file its frames
StructureFile == [kind |-> "structure", frames |-> <<>>]
TopologyFile == [kind |-> "topology", frames |-> <<>>]
TrajectoryFile(frames) == [kind |-> "trajectory", frames |-> frames]

IsTrajectory(e) == e.kind = "trajectory"

\* mutant: the trajectory files are kept in the reverse of their order
TrajFilesReversed(values) ==
    LET sel == SelectSeq(values, IsTrajectory)
    IN  [i \in 1..Len(sel) |-> sel[Len(sel) + 1 - i].frames]

\* lines 146-164: traj_files as the loop over the values leaves it
TrajFilesOf(values) ==
    LET sel == SelectSeq(values, IsTrajectory)
    IN  [i \in 1..Len(sel) |-> sel[i].frames]

\* the values of the trajectory option with the structure file named first
StructureFirst(fl) == <<StructureFile>> \o [i \in 1..Len(fl) |-> TrajectoryFile(fl[i])]

\* fail = k: the read after k frames were read raises Pteros_error; -1: none
\* failkind: what that read throws, a Pteros_error or an exception of
\* another type (std::bad_alloc, std::runtime_error of a file library)
\* hookfail: the hook of the consumer that throws when called, or "none"
FailKinds == {"Pteros_error", "other"}

HookNames == {"pre_process", "consume_frame", "post_process"}

Sources(ncons) ==
    { [files |-> StructureFirst(fl),
       fail |-> k, failkind |-> e, registrations |-> n, hookfail |-> h] :
        fl \in TrajFileLists, k \in -1..MaxFrames, e \in FailKinds,
        n \in ncons, h \in HookNames \cup {"none"} }

\* a failing hook is given to the run of the single consumer
Reachable(s) ==
    /\ s.fail <= TotalFrames(TrajFilesOf(s.files))
    /\ s.hookfail # "none" => s.registrations = 1 /\ s.fail = -1
    /\ s.fail = -1 => s.failkind = "Pteros_error"

NoInfo ==
    [absolute_time |-> -1, absolute_frame |-> -1, valid_frame |-> -1,
     win_size_frames |-> -1, win_size_time |-> -1,
     first_frame |-> -1, first_time |-> -1, last_frame |-> -1, last_time |-> -1]

\* ---------------------------------------------------------------- Init
ReaderInit ==
    [pc |-> "off", file |-> 1, pos |-> 0, abs_frame |-> -1, valid_frame |-> -1,
     saved_first_frame |-> -1, saved_first_time |-> -1, finished |-> FALSE,
     caught |-> FALSE, data |-> <<>>, addr |-> 0, open |-> {}, logged |-> <<>>]

MainInit == [pc |-> "idle", i |-> 0, data |-> <<>>, drain |-> FALSE, error |-> ""]

NoProbe == [fn |-> "none", fr |-> 0, t |-> 0, result |-> "none"]

Idle ==
    /\ consumers = <<>>
    /\ channel = NewChannel
    /\ worker_channels = <<>>
    /\ rd = ReaderInit
    /\ mn = MainInit
    /\ wk = <<>>
    /\ hooks = <<>>
    /\ published = <<>>
    /\ taken = <<>>
    /\ forwarded = <<>>
    /\ delivered = <<>>
    /\ recv = [c \in 0..(MaxConsumers + 1) |-> NoRecv]
    /\ crashed = FALSE
    /\ probe = NoProbe
    /\ sys = <<>>
    /\ io = <<>>
    /\ stops = <<>>
    /\ threads = <<>>
    /\ callers = <<>>
    /\ envelopes = <<>>
    /\ sent = <<>>

\* runs with up to two consumers over every selection range
Init ==
    /\ opt \in { [o EXCEPT !.buffer_size = b] : o \in RangeOptions, b \in 1..MaxBuf }
    /\ src \in { s \in Sources(0..2) : Reachable(s) }
    /\ build \in { b \in Builds : opt.skip = 0 \/ b.rem0 = "trap" }
    /\ cfg = [f \in (DOMAIN NoOptions) \ {"buffer_size", "log_interval"} |-> -1]
    /\ Idle

\* ------------------------------------------------------- add_consumer
\* what the System of a consumer holds before run(): whatever its owner put
InitialSystem == <<"initial">>

\* an entry of io: the operation, the file it is on, and for a frame read its
\* index, the time the filter was given and what the filter decided
Ev(ev, n, abs, t, decision) ==
    [ev |-> ev, n |-> n, abs |-> abs, t |-> t, decision |-> decision]

\* mutant: the ordinal is the size of the list, counted from 1
add_consumer_from_one ==
    /\ mn.pc = "idle"
    /\ Len(consumers) < src.registrations
    /\ consumers' = Append(consumers, [id |-> Len(consumers) + 1])
    /\ hooks' = Append(hooks, <<>>)
    /\ sys' = Append(sys, InitialSystem)
    /\ callers' = Append(callers, {})
    /\ UNCHANGED <<inputVars, threads, envelopes, sent, cfg, channel,
                   worker_channels, rd, mn, wk, histVars, crashed, probe, io,
                   stops>>

\* lines 115-118: push_back, then set_id(consumers.size()-1)
add_consumer ==
    /\ mn.pc = "idle"
    /\ Len(consumers) < src.registrations
    /\ consumers' = Append(consumers, [id |-> (Len(consumers) + 1) - 1])
    /\ hooks' = Append(hooks, <<>>)
    /\ sys' = Append(sys, InitialSystem)
    /\ callers' = Append(callers, {})
    /\ UNCHANGED <<inputVars, threads, envelopes, sent, cfg, channel,
                   worker_channels, rd, mn, wk, histVars, crashed, probe, io,
                   stops>>

\* ------------------------------------------------------------- run
\* mutant: the two options are stored as given, without the defaults
ParseRangeNoDefaults(o) ==
    [first_frame |-> o.first_frame, last_frame |-> o.last_frame,
     first_time |-> o.first_time, last_time |-> o.last_time,
     skip |-> o.skip, custom_start_time |-> o.custom_start_time,
     custom_dt |-> o.custom_dt,
     window_size_frames |-> o.window_size_frames,
     window_size_time |-> o.window_size_time]

\* lines 197-209: the member fields as read from the trajectory options
ParseRange(o) ==
    LET dt == IF o.custom_start_time >= 0 /\ o.custom_dt = -1 THEN 1 ELSE o.custom_dt
        st == IF o.custom_start_time = -1 /\ dt >= 0 THEN 0 ELSE o.custom_start_time
    IN  [first_frame |-> o.first_frame, last_frame |-> o.last_frame,
         first_time |-> o.first_time, last_time |-> o.last_time,
         skip |-> o.skip, custom_start_time |-> st, custom_dt |-> dt,
         window_size_frames |-> o.window_size_frames,
         window_size_time |-> o.window_size_time]

\* the members and locals of run() after the loop of lines 146-164
traj_files == TrajFilesOf(src.files)
structure_file == \E i \in 1..Len(src.files) : src.files[i].kind = "structure"
top_file == \E i \in 1..Len(src.files) : src.files[i].kind = "topology"

\* lines 146-164: the throw of the loop over the values at the first file
\* of a kind that was already seen, or ""
ClassifyError(values) ==
    LET again == { i \in 1..Len(values) :
                     /\ values[i].kind \in {"structure", "topology"}
                     /\ \E j \in 1..(i - 1) : values[j].kind = values[i].kind }
    IN  IF again = {} THEN ""
        ELSE LET i == CHOOSE x \in again : \A y \in again : x <= y
             IN  IF values[i].kind = "structure"
                 THEN "Only one structure file is allowed!"
                 ELSE "Only one topology file is allowed!"

\* the message of the Pteros_error run() throws before it starts a thread, or ""
SetupError(n, values, c) ==
    IF n = 0 THEN "No consumers are connected to trajectory processor!"
    ELSE IF ClassifyError(values) # "" THEN ClassifyError(values)
    ELSE IF TrajFilesOf(values) = <<>> THEN "At least one trajectory file is required!"
    ELSE IF c.first_frame >= 0 /\ c.last_frame >= 0 /\ c.last_frame < c.first_frame
        THEN "Last frame is smaller that first frame"
    ELSE IF c.first_time >= 0 /\ c.last_time >= 0 /\ c.last_time < c.first_time
        THEN "Last time is smaller that first time"
    ELSE ""

\* lines 168-185: what consumers[0]->get_system() holds after clear() and the
\* loads; with neither file named nothing is loaded and nothing is thrown
SystemFiles ==
    (IF structure_file THEN <<"structure">> ELSE <<>>)
        \o (IF top_file THEN <<"topology">> ELSE <<>>)

\* the loads of lines 168-185 as entries of io
LoadEvents ==
    (IF structure_file THEN <<Ev("load_structure", 0, -1, -1, "")>> ELSE <<>>)
        \o (IF top_file THEN <<Ev("load_topology", 0, -1, -1, "")>> ELSE <<>>)

\* mutant: the loop of copies starts one consumer too late
CopyTargetsFromThird(n) == 3..n

\* for(int i=1; i<consumers.size(); ++i), lines 188-193: the consumers, counted
\* from 1, whose system is assigned a copy of the first one
CopyTargets(n) == 2..n

\* lines 168-193: the systems of the n consumers after the first was cleared
\* and loaded and the copies were assigned
LoadAndCopy(n) ==
    [i \in 1..n |-> IF i = 1 \/ i \in CopyTargets(n) THEN SystemFiles ELSE sys[i]]

\* an entry of threads: the body the thread runs and what it was bound to
\* (consumer and worker channel, counted from 1; 0 for the reader)
Thread(body, consumer, ch) == [body |-> body, consumer |-> consumer, ch |-> ch]

\* boost::thread reader_thread(boost::bind(&reader_thread_body, this)) (228)
ReaderThread == Thread("reader_thread_body", 0, 0)

\* mutant: the reader's channel has one slot more than asked for
ReaderBufSizePlusOne == opt.buffer_size + 1

\* buf_size as given to the reader's channel (lines 223-225)
ReaderBufSize == opt.buffer_size

RangeErrors ==
    {"Last frame is smaller that first frame", "Last time is smaller that first time"}

\* mutant: the ranges are checked after the reader thread was started
run_setup_checks_late ==
    /\ mn.pc = "idle"
    /\ Len(consumers) = src.registrations
    /\ LET n == Len(consumers)
           parsed == n > 0 /\ ClassifyError(src.files) = "" /\ traj_files # <<>>
           c == IF parsed THEN ParseRange(opt) ELSE cfg
           err == SetupError(n, src.files, c)
       IN  /\ cfg' = c
           /\ sys' = IF parsed THEN LoadAndCopy(n) ELSE sys
           /\ io' = IF parsed THEN io \o LoadEvents ELSE io
           /\ IF err # "" /\ err \notin RangeErrors
              THEN /\ mn' = [mn EXCEPT !.pc = "threw", !.error = err]
                   /\ UNCHANGED <<channel, rd, threads>>
              ELSE /\ channel' = set_buffer_size(channel, ReaderBufSize)
                   /\ rd' = [rd EXCEPT !.pc = "open"]
                   /\ threads' = Append(threads, ReaderThread)
                   /\ mn' = IF err # ""
                            THEN [mn EXCEPT !.pc = "threw", !.error = err]
                            ELSE [mn EXCEPT !.pc = IF n > 1 THEN "spawn" ELSE "pre"]
    /\ UNCHANGED <<inputVars, callers, envelopes, sent, consumers,
                   worker_channels, wk, hooks, histVars, crashed, probe, stops>>

\* run() up to the start of the reader thread (lines 120-228): the throw of
\* line 124, the throw of line 166, the system of the first consumer cleared
\* and loaded (168-185) and copied to the others (188-193), the options read
\* (197-209), the throws of lines 212-215, the reader thread (223-228)
run_setup ==
    /\ mn.pc = "idle"
    /\ Len(consumers) = src.registrations
    /\ LET n == Len(consumers)
           parsed == n > 0 /\ ClassifyError(src.files) = "" /\ traj_files # <<>>
           c == IF parsed THEN ParseRange(opt) ELSE cfg
           err == SetupError(n, src.files, c)
       IN  /\ cfg' = c
           /\ sys' = IF parsed THEN LoadAndCopy(n) ELSE sys
           /\ io' = IF parsed THEN io \o LoadEvents ELSE io
           /\ IF err # ""
              THEN /\ mn' = [mn EXCEPT !.pc = "threw", !.error = err]
                   /\ UNCHANGED <<channel, rd, threads>>
              ELSE /\ channel' = set_buffer_size(channel, ReaderBufSize)
                   /\ rd' = [rd EXCEPT !.pc = "open"]
                   /\ threads' = Append(threads, ReaderThread)
                   /\ mn' = [mn EXCEPT !.pc = IF n > 1 THEN "spawn" ELSE "pre"]
    /\ UNCHANGED <<inputVars, callers, envelopes, sent, consumers,
                   worker_channels, wk, hooks, histVars, crashed, probe, stops>>

\* ------------------------------------------------- reader_thread_body
\* mutant: the time stored in the file is kept
FrameTimeEmbedded(embedded, abs) == embedded

\* line 337-340: the frame's time, overridden when custom_dt is set
FrameTime(embedded, abs) ==
    IF cfg.custom_dt >= 0 THEN cfg.custom_start_time + cfg.custom_dt * abs
    ELSE embedded

\* mutant: first_frame and first_time are taken from the frame itself
FrameInfoFirstIsOwn(abs, t, v, first_fr, first_t) ==
    [absolute_time |-> t, absolute_frame |-> abs, valid_frame |-> v,
     win_size_frames |-> cfg.window_size_frames,
     win_size_time |-> cfg.window_size_time,
     first_frame |-> abs, first_time |-> t,
     last_frame |-> abs, last_time |-> t]

\* lines 365-373: frame_info of the frame accepted as valid number v
FrameInfo(abs, t, v, first_fr, first_t) ==
    [absolute_time |-> t, absolute_frame |-> abs, valid_frame |-> v,
     win_size_frames |-> cfg.window_size_frames,
     win_size_time |-> cfg.window_size_time,
     first_frame |-> first_fr, first_time |-> first_t,
     last_frame |-> abs, last_time |-> t]

\* boost::shared_ptr<Mol_file> trj = io_factory(fname,'r') (line 318): the
\* files the reader holds open, with file f opened
OpenFile(open, f) == open \cup {f}

\* trj is a local of the body of the loop over files: file f is closed when
\* the body is left, by its end, by break or by an exception
CloseFile(open, f) == open \ {f}

\* mutant: the count of frames starts again with every file
ReaderOpenResets ==
    /\ ~crashed
    /\ rd.pc = "open"
    /\ rd' = IF rd.file > Len(traj_files)
             THEN [rd EXCEPT !.pc = "final"]
             ELSE [rd EXCEPT !.pc = "read", !.pos = 0, !.abs_frame = -1,
                             !.open = OpenFile(@, rd.file)]
    /\ io' = IF rd.file > Len(traj_files) THEN io
             ELSE Append(io, Ev("open", rd.file, -1, -1, ""))
    /\ UNCHANGED <<inputVars, objVars, cfg, consumers, channel, worker_channels,
                   mn, wk, hooks, histVars, crashed, probe, sys, stops>>

\* BOOST_FOREACH over traj_files: io_factory opens the next file, or the
\* loop is over
ReaderOpen ==
    /\ ~crashed
    /\ rd.pc = "open"
    /\ rd' = IF rd.file > Len(traj_files)
             THEN [rd EXCEPT !.pc = "final"]
             ELSE [rd EXCEPT !.pc = "read", !.pos = 0,
                             !.open = OpenFile(@, rd.file)]
    /\ io' = IF rd.file > Len(traj_files) THEN io
             ELSE Append(io, Ev("open", rd.file, -1, -1, ""))
    /\ UNCHANGED <<inputVars, objVars, cfg, consumers, channel, worker_channels,
                   mn, wk, hooks, histVars, crashed, probe, sys, stops>>

\* mutant: the end of the interval leaves the loop over frames only, and
\* the loop over files goes on
EndOfIntervalNextFile(r, abs) ==
    [r EXCEPT !.pc = "open", !.file = @ + 1, !.abs_frame = abs, !.pos = @ + 1]

\* mutant: the break is missing, the loop over frames goes on after send_stop
EndOfIntervalGoesOn(r, abs) ==
    [r EXCEPT !.finished = TRUE, !.abs_frame = abs, !.pos = @ + 1]

\* lines 346-348 and 382: finished is set and both loops are left
EndOfIntervalExit(r, abs) ==
    [r EXCEPT !.pc = "final", !.finished = TRUE, !.abs_frame = abs, !.pos = @ + 1]

\* mutant: the frame is tested for validity first, and a frame that is not
\* valid is skipped before the end of the interval is looked at
ClassifyValidityFirst(abs, t) ==
    LET r == is_frame_valid(abs, t) IN
    IF r = "trap" THEN "trap"
    ELSE IF r = "false" THEN "invalid"
    ELSE IF is_end_of_interval(abs, t) THEN "end"
    ELSE "valid"

\* lines 342-351: what the loop does with the frame of index abs and time t
Classify(abs, t) ==
    IF is_end_of_interval(abs, t) THEN "end"
    ELSE LET r == is_frame_valid(abs, t) IN
         IF r = "trap" THEN "trap"
         ELSE IF r = "false" THEN "invalid"
         ELSE "valid"

\* mutant: a frame that is not valid is not counted
RejectFrameUncounted(r, abs) == [r EXCEPT !.pos = @ + 1]

\* ++abs_frame (line 332) and continue (line 351)
RejectFrame(r, abs) == [r EXCEPT !.abs_frame = abs, !.pos = @ + 1]

\* the member log_interval: the option of that name
log_interval == opt.log_interval

\* mutant: a frame that is logged is counted as a valid frame
LogLoadedCounts(r, abs) ==
    IF log_interval > 0 /\ CRem(abs, log_interval) = 0
    THEN [r EXCEPT !.logged = Append(@, abs), !.valid_frame = @ + 1]
    ELSE r

\* lines 334-335: "Loaded frame" is printed for every log_interval-th frame
\* read; logged is what the reader has printed
LogLoaded(r, abs) ==
    IF log_interval > 0 /\ CRem(abs, log_interval) = 0
    THEN [r EXCEPT !.logged = Append(@, abs)]
    ELSE r

\* mutant: one Data_container, allocated before the loops, is filled again
\* for every frame
SameEnvelope(env) == 1

\* boost::shared_ptr<Data_container> data(new Data_container) (line 322): the
\* address of the envelope of this pass of the loop
NewEnvelope(env) == Len(env) + 1

\* the envelopes with content written to the one at address a
Store(env, a, content) ==
    IF a > Len(env) THEN Append(env, content) ELSE [env EXCEPT ![a] = content]

\* one pass of the loop over frames, up to channel.send (lines 321-373)
ReaderRead ==
    /\ ~crashed
    /\ rd.pc = "read"
    /\ LET f == traj_files[rd.file]
           abs == rd.abs_frame + 1
           a == NewEnvelope(envelopes)
       IN  IF abs = src.fail
           THEN IF src.failkind = "Pteros_error"
                THEN \* trj->read throws: the catch clause sends stop (389-394)
                     /\ channel' = send_stop(channel)
                     /\ rd' = [rd EXCEPT !.pc = "done", !.caught = TRUE,
                                         !.open = CloseFile(@, rd.file)]
                     /\ UNCHANGED <<crashed, io, envelopes>>
                ELSE \* no catch clause matches: the exception leaves the
                     \* thread function and the process is terminated
                     /\ crashed' = TRUE
                     /\ rd' = [rd EXCEPT !.pc = "escaped"]
                     /\ UNCHANGED <<channel, io, envelopes>>
           ELSE IF rd.pos = Len(f)
           THEN \* good is false: next file
                /\ rd' = [rd EXCEPT !.pc = "open", !.file = @ + 1,
                                    !.open = CloseFile(@, rd.file)]
                /\ UNCHANGED <<channel, crashed, io, envelopes>>
           ELSE LET r0 == LogLoaded(rd, abs)
                    t == FrameTime(f[rd.pos + 1], abs)
                    c == Classify(abs, t)
                IN  IF c = "end"
                    THEN /\ channel' = send_stop(channel)
                         /\ rd' = [EndOfIntervalExit(r0, abs) EXCEPT
                                      !.open = CloseFile(@, rd.file), !.addr = a]
                         /\ io' = Append(io, Ev("read", rd.file, abs, t, "end"))
                         /\ envelopes' = Store(envelopes, a, NoInfo)
                         /\ UNCHANGED crashed
                    ELSE IF c = "trap"
                    THEN /\ crashed' = TRUE
                         /\ rd' = r0
                         /\ UNCHANGED <<channel, io, envelopes>>
                    ELSE IF c = "invalid"
                    THEN /\ rd' = [RejectFrame(r0, abs) EXCEPT !.addr = a]
                         /\ io' = Append(io, Ev("read", rd.file, abs, t, "invalid"))
                         /\ envelopes' = Store(envelopes, a, NoInfo)
                         /\ UNCHANGED <<channel, crashed>>
                    ELSE LET v == r0.valid_frame + 1
                             ff == IF v = 0 THEN abs ELSE r0.saved_first_frame
                             ft == IF v = 0 THEN t ELSE r0.saved_first_time
                             info == FrameInfo(abs, t, v, ff, ft)
                         IN  /\ rd' = [r0 EXCEPT !.abs_frame = abs, !.pos = @ + 1,
                                         !.valid_frame = v,
                                         !.saved_first_frame = ff,
                                         !.saved_first_time = ft,
                                         !.data = <<info>>, !.addr = a,
                                         !.pc = "send"]
                             /\ io' = Append(io, Ev("read", rd.file, abs, t, "valid"))
                             /\ envelopes' = Store(envelopes, a, info)
                             /\ UNCHANGED <<channel, crashed>>
    /\ UNCHANGED <<inputVars, threads, callers, sent, cfg, consumers,
                   worker_channels, mn, wk, hooks, histVars, probe, sys, stops>>

\* channel.send(data) (line 376), then the next pass of the loop
ReaderSend ==
    /\ ~crashed
    /\ rd.pc = "send"
    /\ send_returns(channel)
    /\ channel' = send(channel, rd.data[1])
    /\ published' = IF send_enqueues(channel) THEN Append(published, rd.data[1])
                    ELSE published
    /\ sent' = IF send_enqueues(channel) THEN Append(sent, rd.addr) ELSE sent
    /\ rd' = [rd EXCEPT !.pc = "read", !.data = <<>>]
    /\ UNCHANGED <<inputVars, threads, callers, envelopes, logVars, cfg,
                   consumers, worker_channels, mn, wk, hooks, taken, forwarded,
                   delivered, recv, crashed, probe>>

\* channel.send_stop() after the loop over trajectories (line 387)
ReaderFinal ==
    /\ ~crashed
    /\ rd.pc = "final"
    /\ channel' = send_stop(channel)
    /\ rd' = [rd EXCEPT !.pc = "done"]
    /\ UNCHANGED <<inputVars, objVars, logVars, cfg, consumers, worker_channels,
                   mn, wk, hooks, histVars, crashed, probe>>

Reader == ReaderOpen \/ ReaderRead \/ ReaderSend \/ ReaderFinal

\* ------------------------------------------------ run(): fan-out path
NConsumers == Len(consumers)

Hook(name, info) == [hook |-> name, info |-> info]

\* mutant: one slot more than asked for
WorkerBufSizePlusOne == opt.buffer_size + 1

\* buf_size as given to each worker channel (line 239)
WorkerBufSize == opt.buffer_size

\* mutant: every pass of the loop sends to the first worker channel
ForwardTargetFirst(k) == 1

\* mutant: the first worker channel is left out, the second is sent to twice
ForwardTargetSkipFirst(k) == IF k = 1 THEN 2 ELSE k

\* BOOST_FOREACH(Data_channel_ptr &ch, worker_channels): the channel that
\* pass number k of the loop sends to (lines 252-254)
ForwardTarget(k) == k

\* mutant: every worker thread is bound to the first worker channel
BoundChannelFirst(k) == 1

\* boost::bind(&Consumer_base::run_in_thread, consumers[i], worker_channels[i])
\* (lines 241-246): the consumer and the channel, counted from 1, that the
\* thread created by pass number k of the loop is bound to
BoundConsumer(k) == k
BoundChannel(k) == k

\* the thread that called run()
RunThread == 0

\* lines 235-247: one pass of the loop creating a channel and its thread
MainSpawn ==
    /\ ~crashed
    /\ mn.pc = "spawn"
    /\ worker_channels' = Append(worker_channels,
                                 set_buffer_size(NewChannel, WorkerBufSize))
    /\ wk' = Append(wk, [pc |-> "pre", data |-> <<>>,
                          consumer |-> BoundConsumer(mn.i + 1),
                          ch |-> BoundChannel(mn.i + 1)])
    /\ threads' = Append(threads, Thread("run_in_thread", BoundConsumer(mn.i + 1),
                                         BoundChannel(mn.i + 1)))
    /\ forwarded' = Append(forwarded, <<>>)
    /\ delivered' = Append(delivered, <<>>)
    /\ stops' = Append(stops, 0)
    /\ mn' = IF mn.i + 1 = NConsumers
             THEN [mn EXCEPT !.pc = "recv", !.i = 0]
             ELSE [mn EXCEPT !.i = @ + 1]
    /\ UNCHANGED <<inputVars, callers, envelopes, sent, sys, io, cfg, consumers,
                   channel, rd, hooks, published, taken, recv, crashed, probe>>

\* while(channel.recieve(data)) (line 251)
MainRecieve ==
    /\ ~crashed
    /\ mn.pc = "recv"
    /\ recieve_returns(channel)
    /\ recv' = [recv EXCEPT ![0] = RecvRecord(channel)]
    /\ channel' = recieve(channel)
    /\ taken' = IF recieve_ok(channel) THEN Append(taken, Head(channel.q)) ELSE taken
    /\ mn' = IF recieve_ok(channel)
             THEN [mn EXCEPT !.pc = "fwd", !.i = 0, !.drain = FALSE,
                             !.data = recieve_data(channel, @)]
             ELSE [mn EXCEPT !.pc = "drain", !.data = recieve_data(channel, @)]
    /\ UNCHANGED <<inputVars, objVars, logVars, cfg, consumers, worker_channels,
                   rd, wk, hooks, published, forwarded, delivered, crashed,
                   probe>>

\* ch->send(data) for the next of the worker channels (lines 252-254, 261-263)
MainForward ==
    /\ ~crashed
    /\ mn.pc = "fwd"
    /\ LET k == ForwardTarget(mn.i + 1)
           ch == worker_channels[k]
       IN  /\ send_returns(ch)
           /\ worker_channels' = [worker_channels EXCEPT ![k] = send(ch, mn.data[1])]
           /\ forwarded' = IF send_enqueues(ch)
                           THEN [forwarded EXCEPT ![k] = Append(@, mn.data[1])]
                           ELSE forwarded
    /\ mn' = IF mn.i + 1 = NConsumers
             THEN [mn EXCEPT !.pc = IF mn.drain THEN "drain" ELSE "recv", !.i = 0]
             ELSE [mn EXCEPT !.i = @ + 1]
    /\ UNCHANGED <<inputVars, objVars, logVars, cfg, consumers, channel, rd, wk,
                   hooks, published, taken, delivered, recv, crashed, probe>>

\* while(!channel.empty()) channel.recieve(data) (lines 259-260)
MainDrain ==
    /\ ~crashed
    /\ mn.pc = "drain"
    /\ IF ~empty(channel)
       THEN /\ recv' = [recv EXCEPT ![0] = RecvRecord(channel)]
            /\ channel' = recieve(channel)
            /\ taken' = Append(taken, Head(channel.q))
            /\ mn' = [mn EXCEPT !.pc = "fwd", !.i = 0, !.drain = TRUE,
                                !.data = recieve_data(channel, @)]
       ELSE /\ mn' = [mn EXCEPT !.pc = "stopall", !.i = 0]
            /\ UNCHANGED <<channel, taken, recv>>
    /\ UNCHANGED <<inputVars, objVars, logVars, cfg, consumers, worker_channels,
                   rd, wk, hooks, published, forwarded, delivered, crashed,
                   probe>>

\* mutant: every pass of the loop stops the first worker channel
StopTargetFirst(k) == 1

\* BOOST_FOREACH(Data_channel_ptr &ch, worker_channels): the channel that
\* pass number k of the loop stops (lines 267-269)
StopTarget(k) == k

\* ch->send_stop() for the next of the worker channels (lines 267-269)
MainStopAll ==
    /\ ~crashed
    /\ mn.pc = "stopall"
    /\ LET k == StopTarget(mn.i + 1) IN
       /\ worker_channels' = [worker_channels EXCEPT ![k] = send_stop(@)]
       /\ stops' = [stops EXCEPT ![k] = @ + 1]
    /\ mn' = IF mn.i + 1 = NConsumers
             THEN [mn EXCEPT !.pc = "join_reader", !.i = 0]
             ELSE [mn EXCEPT !.i = @ + 1]
    /\ UNCHANGED <<inputVars, objVars, cfg, consumers, channel, rd, wk, hooks,
                   histVars, crashed, probe, sys, io>>

\* ---------------------------------------- run(): single-consumer path
\* run() has no try block: what a hook of the single consumer throws leaves
\* run() at once, past the joins of lines 293-296, and the reader thread
\* goes on by itself
HookThrows(name) == src.hookfail = name

ConsumerError == "consumer hook failed"

\* mutant: run() catches what the hook throws and goes on
AfterHookCaught(name, pc) == [mn EXCEPT !.pc = pc]

\* the position of run() after the call of hook name, which goes on at pc
AfterHook(name, pc) ==
    IF HookThrows(name) THEN [mn EXCEPT !.pc = "threw", !.error = ConsumerError]
    ELSE [mn EXCEPT !.pc = pc]

\* consumers[0]->pre_process_handler() (line 278)
MainPre ==
    /\ ~crashed
    /\ mn.pc = "pre"
    /\ hooks' = [hooks EXCEPT ![1] = Append(@, Hook("pre_process", NoInfo))]
    /\ callers' = [callers EXCEPT ![1] = @ \cup {RunThread}]
    /\ mn' = AfterHook("pre_process", "recv1")
    /\ UNCHANGED <<inputVars, threads, envelopes, sent, logVars, cfg, consumers,
                   channel, worker_channels, rd, wk, histVars, crashed, probe>>

\* while(channel.recieve(data)) (line 281)
MainRecieve1 ==
    /\ ~crashed
    /\ mn.pc = "recv1"
    /\ recieve_returns(channel)
    /\ recv' = [recv EXCEPT ![0] = RecvRecord(channel)]
    /\ channel' = recieve(channel)
    /\ taken' = IF recieve_ok(channel) THEN Append(taken, Head(channel.q)) ELSE taken
    /\ mn' = IF recieve_ok(channel)
             THEN [mn EXCEPT !.pc = "consume1", !.drain = FALSE,
                             !.data = recieve_data(channel, @)]
             ELSE [mn EXCEPT !.pc = "drain1", !.data = recieve_data(channel, @)]
    /\ UNCHANGED <<inputVars, objVars, logVars, cfg, consumers, worker_channels,
                   rd, wk, hooks, published, forwarded, delivered, crashed,
                   probe>>

\* consumers[0]->consume_frame(data) (lines 282, 286)
MainConsume ==
    /\ ~crashed
    /\ mn.pc = "consume1"
    /\ hooks' = [hooks EXCEPT ![1] = Append(@, Hook("consume_frame", mn.data[1]))]
    /\ callers' = [callers EXCEPT ![1] = @ \cup {RunThread}]
    /\ mn' = AfterHook("consume_frame", IF mn.drain THEN "drain1" ELSE "recv1")
    /\ UNCHANGED <<inputVars, threads, envelopes, sent, logVars, cfg, consumers,
                   channel, worker_channels, rd, wk, histVars, crashed, probe>>

\* while(!channel.empty()) channel.recieve(data) (lines 284-285)
MainDrain1 ==
    /\ ~crashed
    /\ mn.pc = "drain1"
    /\ IF ~empty(channel)
       THEN /\ recv' = [recv EXCEPT ![0] = RecvRecord(channel)]
            /\ channel' = recieve(channel)
            /\ taken' = Append(taken, Head(channel.q))
            /\ mn' = [mn EXCEPT !.pc = "consume1", !.drain = TRUE,
                                !.data = recieve_data(channel, @)]
       ELSE /\ mn' = [mn EXCEPT !.pc = "post1"]
            /\ UNCHANGED <<channel, taken, recv>>
    /\ UNCHANGED <<inputVars, objVars, logVars, cfg, consumers, worker_channels,
                   rd, wk, hooks, published, forwarded, delivered, crashed,
                   probe>>

\* what post_process_handler is given when data is the null pointer: the
\* reference data->frame_info is not a Frame_info of the run
InvalidInfo == [NoInfo EXCEPT !.valid_frame = -2]

\* consumers[0]->post_process_handler(data->frame_info) (line 289).
\* With data null the dereference is undefined: the process is killed (the
\* shared_ptr assertion, a fault), or the handler runs on an invalid reference.
MainPost ==
    /\ ~crashed
    /\ mn.pc = "post1"
    /\ IF mn.data = <<>>
       THEN \/ /\ crashed' = TRUE
               /\ UNCHANGED <<hooks, mn, callers>>
            \/ /\ hooks' = [hooks EXCEPT ![1] =
                                Append(@, Hook("post_process", InvalidInfo))]
               /\ mn' = AfterHook("post_process", "join_reader")
               /\ callers' = [callers EXCEPT ![1] = @ \cup {RunThread}]
               /\ UNCHANGED crashed
       ELSE /\ hooks' = [hooks EXCEPT ![1] =
                                Append(@, Hook("post_process", mn.data[1]))]
            /\ mn' = AfterHook("post_process", "join_reader")
            /\ callers' = [callers EXCEPT ![1] = @ \cup {RunThread}]
            /\ UNCHANGED crashed
    /\ UNCHANGED <<inputVars, threads, envelopes, sent, logVars, cfg, consumers,
                   channel, worker_channels, rd, wk, histVars, probe>>

\* ------------------------------------------------------ run(): joins
\* reader_thread.join() (line 293)
MainJoinReader ==
    /\ ~crashed
    /\ mn.pc = "join_reader"
    /\ rd.pc = "done"
    /\ mn' = [mn EXCEPT !.pc = IF NConsumers > 1 THEN "join_workers" ELSE "returned"]
    /\ UNCHANGED <<inputVars, objVars, logVars, cfg, consumers, channel,
                   worker_channels, rd, wk, hooks, histVars, crashed, probe>>

\* worker_threads.join_all() (line 295)
MainJoinWorkers ==
    /\ ~crashed
    /\ mn.pc = "join_workers"
    /\ \A w \in 1..Len(wk) : wk[w].pc = "done"
    /\ mn' = [mn EXCEPT !.pc = "returned"]
    /\ UNCHANGED <<inputVars, objVars, logVars, cfg, consumers, channel,
                   worker_channels, rd, wk, hooks, histVars, crashed, probe>>

Main ==
    \/ MainSpawn \/ MainRecieve \/ MainForward \/ MainDrain \/ MainStopAll
    \/ MainPre \/ MainRecieve1 \/ MainConsume \/ MainDrain1 \/ MainPost
    \/ MainJoinReader \/ MainJoinWorkers

\* ------------------------------------- Consumer_base::run_in_thread
\* Worker thread w, run on the consumer and the channel it was bound to:
\* pre_process, then recieve / consume_frame until the channel is closed,
\* then post_process.
WorkerPre(w) ==
    /\ ~crashed
    /\ wk[w].pc = "pre"
    /\ hooks' = [hooks EXCEPT ![wk[w].consumer] =
                     Append(@, Hook("pre_process", NoInfo))]
    /\ callers' = [callers EXCEPT ![wk[w].consumer] = @ \cup {w}]
    /\ wk' = [wk EXCEPT ![w].pc = "loop"]
    /\ UNCHANGED <<inputVars, threads, envelopes, sent, logVars, cfg, consumers,
                   channel, worker_channels, rd, mn, histVars, crashed, probe>>

WorkerLoop(w) ==
    /\ ~crashed
    /\ wk[w].pc = "loop"
    /\ LET c == wk[w].ch
           ch == worker_channels[c]
       IN
       /\ recieve_returns(ch)
       /\ recv' = [recv EXCEPT ![c] = RecvRecord(ch)]
       /\ worker_channels' = [worker_channels EXCEPT ![c] = recieve(ch)]
       /\ IF recieve_ok(ch)
          THEN /\ delivered' = [delivered EXCEPT ![c] = Append(@, Head(ch.q))]
               /\ hooks' = [hooks EXCEPT ![wk[w].consumer] =
                                Append(@, Hook("consume_frame", Head(ch.q)))]
               /\ callers' = [callers EXCEPT ![wk[w].consumer] = @ \cup {w}]
               /\ wk' = [wk EXCEPT ![w].data = <<Head(ch.q)>>]
          ELSE /\ wk' = [wk EXCEPT ![w].pc = "post"]
               /\ UNCHANGED <<delivered, hooks, callers>>
    /\ UNCHANGED <<inputVars, threads, envelopes, sent, logVars, cfg, consumers,
                   channel, rd, mn, published, taken, forwarded, crashed,
                   probe>>

WorkerPost(w) ==
    /\ ~crashed
    /\ wk[w].pc = "post"
    /\ hooks' = [hooks EXCEPT ![wk[w].consumer] = Append(@, Hook("post_process",
                      IF wk[w].data = <<>> THEN NoInfo ELSE wk[w].data[1]))]
    /\ callers' = [callers EXCEPT ![wk[w].consumer] = @ \cup {w}]
    /\ wk' = [wk EXCEPT ![w].pc = "done"]
    /\ UNCHANGED <<inputVars, threads, envelopes, sent, logVars, cfg, consumers,
                   channel, worker_channels, rd, mn, histVars, crashed, probe>>

Worker == \E w \in 1..Len(wk) : WorkerPre(w) \/ WorkerLoop(w) \/ WorkerPost(w)

\* ------------------------------------------------------------ the run
Next == add_consumer \/ run_setup \/ Reader \/ Main \/ Worker

Spec == Init /\ [][Next]_vars

\* runs with up to MaxConsumers consumers over one trajectory file
InitFan ==
    /\ opt \in { [o EXCEPT !.buffer_size = b] :
                    o \in {NoOptions, [NoOptions EXCEPT !.last_frame = MaxFrames - 3]},
                    b \in 1..MaxBuf }
    /\ src \in { s \in Sources(1..MaxConsumers) :
                    /\ s.files = StructureFirst(<<MkFile(0, MaxFrames - 1)>>)
                    /\ s.fail = -1 /\ s.failkind = "Pteros_error"
                    /\ s.hookfail = "none" }
    /\ build = [rem0 |-> "trap"]
    /\ cfg = [f \in (DOMAIN NoOptions) \ {"buffer_size", "log_interval"} |-> -1]
    /\ Idle

SpecFan == InitFan /\ [][Next]_vars

\* runs of one consumer over every way of naming up to MaxFiles files, of
\* any kind and in any order, in the trajectory option
FileValues ==
    {StructureFile, TopologyFile,
     TrajectoryFile(MkFile(0, 1)), TrajectoryFile(MkFile(1, 2))}

FileLists ==
    UNION { [1..n -> FileValues] : n \in 1..MaxFiles }

InitFiles ==
    /\ opt \in { [NoOptions EXCEPT !.buffer_size = b] : b \in 1..MaxBuf }
    /\ src \in { [files |-> fl, fail |-> -1, failkind |-> "Pteros_error",
                   registrations |-> 1, hookfail |-> "none"] : fl \in FileLists }
    /\ build = [rem0 |-> "trap"]
    /\ cfg = [f \in (DOMAIN NoOptions) \ {"buffer_size", "log_interval"} |-> -1]
    /\ Idle

NextFiles ==
    \/ add_consumer \/ run_setup \/ Reader
    \/ MainPre \/ MainRecieve1 \/ MainConsume \/ MainDrain1 \/ MainPost
    \/ MainJoinReader

SpecFiles == InitFiles /\ [][NextFiles]_vars

\* runs of one or two consumers under every value of log_interval and every
\* way of giving, or not giving, custom_start_time and custom_dt
LogIntervals == -1..MaxIdx

LogOptions ==
    { [o EXCEPT !.log_interval = l] :
        o \in {NoOptions, [NoOptions EXCEPT !.skip = 2]}, l \in LogIntervals }

TimeOptions ==
    { [NoOptions EXCEPT !.custom_start_time = s, !.custom_dt = d] :
        s \in -1..1, d \in -1..MaxIdx }

InitOptions ==
    /\ opt \in { [o EXCEPT !.buffer_size = b] :
                    o \in LogOptions \cup TimeOptions, b \in 1..MaxBuf }
    /\ src \in { s \in Sources(1..2) :
                    /\ s.files \in
                         { StructureFirst(<<MkFile(0, 1), MkFile(1, MaxFrames - 1)>>),
                           StructureFirst(<<MkFile(0, MaxFrames - 1), MkFile(0, 1)>>) }
                    /\ s.fail = -1 /\ s.failkind = "Pteros_error"
                    /\ s.hookfail = "none" }
    /\ build = [rem0 |-> "trap"]
    /\ cfg = [f \in (DOMAIN NoOptions) \ {"buffer_size", "log_interval"} |-> -1]
    /\ Idle

SpecOptions == InitOptions /\ [][Next]_vars

\* ------------------------------------------------- the filter on its own
\* is_frame_valid and is_end_of_interval called on a processor whose range
\* fields hold any values
FilterRanges ==
    { [first_frame |-> a, last_frame |-> b, first_time |-> c, last_time |-> d,
       skip |-> k, custom_start_time |-> -1, custom_dt |-> -1,
       window_size_frames |-> -1, window_size_time |-> -1] :
        a \in -1..MaxIdx, b \in -1..MaxIdx, c \in -1..MaxIdx, d \in -1..MaxIdx,
        k \in -2..MaxIdx }

InitFilter ==
    /\ opt = NoOptions
    /\ src = [files |-> <<>>,
              fail |-> -1, failkind |-> "Pteros_error", registrations |-> 0,
              hookfail |-> "none"]
    /\ build \in Builds
    /\ cfg \in { c \in FilterRanges : c.skip = 0 \/ build.rem0 = "trap" }
    /\ Idle

call_is_frame_valid ==
    /\ probe.fn = "none"
    /\ \E fr \in 0..(MaxIdx + 1), t \in -1..MaxIdx :
          LET r == is_frame_valid(fr, t) IN
          /\ probe' = [fn |-> "is_frame_valid", fr |-> fr, t |-> t, result |-> r]
          /\ crashed' = (r = "trap")
    /\ UNCHANGED <<inputVars, objVars, logVars, cfg, consumers, channel,
                   worker_channels, rd, mn, wk, hooks, histVars>>

call_is_end_of_interval ==
    /\ probe.fn = "none"
    /\ \E fr \in 0..(MaxIdx + 1), t \in -1..MaxIdx :
          probe' = [fn |-> "is_end_of_interval", fr |-> fr, t |-> t,
                    result |-> IF is_end_of_interval(fr, t) THEN "true" ELSE "false"]
    /\ UNCHANGED <<inputVars, objVars, logVars, cfg, consumers, channel,
                   worker_channels, rd, mn, wk, hooks, histVars, crashed>>

NextFilter == call_is_frame_valid \/ call_is_end_of_interval

SpecFilter == InitFilter /\ [][NextFilter]_vars

\* ============================================================ properties
\* frame_info of the consume_frame calls made on consumer number i (from 1)
RECURSIVE Consumed(_)
Consumed(hs) ==
    IF hs = <<>> THEN <<>>
    ELSE IF Head(hs).hook = "consume_frame"
         THEN <<Head(hs).info>> \o Consumed(Tail(hs))
         ELSE Consumed(Tail(hs))

RECURSIVE Flatten(_)
Flatten(files) == IF files = <<>> THEN <<>> ELSE Head(files) \o Flatten(Tail(files))

\* The envelopes a reader publishes over the frames fs from absolute index k
\* on, after publishing acc: the sequential reading of the loop, which does
\* not know how many consumers there are.
RECURSIVE ReaderTrace(_, _, _)
ReaderTrace(fs, k, acc) ==
    IF k = Len(fs) \/ k = src.fail THEN acc
    ELSE LET t == FrameTime(fs[k + 1], k) IN
         IF is_end_of_interval(k, t) THEN acc
         ELSE IF is_frame_valid(k, t) = "trap" THEN acc
         ELSE IF is_frame_valid(k, t) = "false" THEN ReaderTrace(fs, k + 1, acc)
         ELSE ReaderTrace(fs, k + 1,
                  Append(acc, FrameInfo(k, t, Len(acc),
                                        IF acc = <<>> THEN k ELSE acc[1].absolute_frame,
                                        IF acc = <<>> THEN t ELSE acc[1].absolute_time)))

Expected == ReaderTrace(Flatten(traj_files), 0, <<>>)

Started == mn.pc \notin {"idle", "threw"}

NoDup(q) == \A i, j \in 1..Len(q) : q[i] = q[j] => i = j

\* C1: in fan-out mode (two or more consumers) every worker channel is sent, and
\* every worker receives, the envelopes the reader published, in the order
\* published: at every moment a prefix of them, and all of them once the
\* dispatcher has left its loops (the worker: once its channel reported closed).
FanOutDelivery ==
    NConsumers >= 2 =>
        \A k \in 1..Len(worker_channels) :
            /\ IsPrefix(forwarded[k], published)
            /\ IsPrefix(delivered[k], forwarded[k])
            /\ (mn.pc \in {"stopall", "join_reader", "join_workers", "returned"}
                    => forwarded[k] = published)
            /\ (wk[k].pc \in {"post", "done"} => delivered[k] = published)

FanOutDeliveryWitness ==
    /\ NConsumers = MaxConsumers
    /\ mn.pc = "returned"
    /\ Len(published) >= 2
    /\ \A k \in 1..NConsumers : delivered[k] = published

\* C2: the frame_info sequence consumer #0 is given through consume_frame is the
\* sequence the sequential reading of the source publishes, the same whether
\* run() drains the channel itself (one consumer) or fans out to two
\* consumers: a prefix of it at every moment, and all of it once consumer #0's
\* stream has ended.
SamePathSequence ==
    (Started /\ NConsumers \in {1, 2}) =>
        /\ IsPrefix(Consumed(hooks[1]), Expected)
        /\ ( \/ (NConsumers = 1 /\ mn.pc \in {"post1", "join_reader", "returned"})
             \/ (NConsumers = 2 /\ Len(wk) >= 1 /\ wk[1].pc \in {"post", "done"})
             => Consumed(hooks[1]) = Expected )

SamePathSequenceWitness ==
    /\ NConsumers = 2
    /\ mn.pc = "returned"
    /\ Len(Expected) >= 2
    /\ Consumed(hooks[1]) = Expected

\* C3: when a read raised a failure after N frames were published, the process
\* is not killed, and once run() has returned every consumer has been given
\* exactly the N published frames through consume_frame.
ReadFailureCompletes ==
    rd.caught =>
        /\ ~crashed
        /\ (mn.pc = "returned" =>
                \A i \in 1..NConsumers : Consumed(hooks[i]) = published)

\* C4: every channel is strictly FIFO and loses nothing: what was enqueued is
\* what was received followed by what is still buffered, and when recieve
\* reports closed everything enqueued has been received.
ChannelFifo ==
    /\ published = taken \o channel.q
    /\ (recv[0].called /\ ~recv[0].ok => taken = published)
    /\ \A k \in 1..Len(worker_channels) :
            /\ forwarded[k] = delivered[k] \o worker_channels[k].q
            /\ (recv[k].called /\ ~recv[k].ok => delivered[k] = forwarded[k])

ChannelFifoWitness ==
    /\ recv[0].called /\ ~recv[0].ok /\ Len(taken) >= 2
    /\ Len(worker_channels) = 2
    /\ recv[2].called /\ ~recv[2].ok /\ Len(delivered[2]) >= 2

\* C5: no channel ever buffers more than buffer_size items (so a send at
\* capacity enqueues nothing until a recieve has made room).
ChannelsBounded ==
    /\ Len(channel.q) <= opt.buffer_size
    /\ \A k \in 1..Len(worker_channels) :
            Len(worker_channels[k].q) <= opt.buffer_size

ChannelsBoundedWitness ==
    /\ mn.pc = "fwd"
    /\ ~send_returns(worker_channels[mn.i + 1])
    /\ Len(worker_channels[mn.i + 1].q) = opt.buffer_size
    /\ Len(channel.q) = opt.buffer_size

\* C6: recieve returns false only when send_stop had been called and the buffer
\* was empty; while items are buffered it returns the oldest one with true,
\* also after send_stop.
RecieveClosedOnlyWhenDrained ==
    \A c \in DOMAIN recv :
        recv[c].called =>
            /\ (~recv[c].ok => recv[c].wasStopped /\ recv[c].wasQ = <<>>)
            /\ (recv[c].wasQ # <<>> =>
                    recv[c].ok /\ recv[c].item = <<Head(recv[c].wasQ)>>)

RecieveAfterStopWitness ==
    \E c \in DOMAIN recv :
        /\ recv[c].called /\ recv[c].wasStopped
        /\ recv[c].wasQ # <<>> /\ recv[c].ok

\* C7 as stated: once send_stop was called on a channel, every recieve on it
\* returns no item.
StoppedRecieveNoItem ==
    \A c \in DOMAIN recv : (recv[c].called /\ recv[c].wasStopped) => ~recv[c].ok

\* C7 amended: once send_stop was called on a channel and its buffer is empty,
\* every recieve returns no item; a recieve on a stopped channel never blocks,
\* and an item it returns is the oldest one still buffered, never one that
\* was received before.
StoppedRecieveDrains ==
    /\ \A c \in DOMAIN recv :
          (recv[c].called /\ recv[c].wasStopped) =>
             /\ (recv[c].wasQ = <<>> => ~recv[c].ok /\ recv[c].item = <<>>)
             /\ (recv[c].ok => recv[c].item = <<Head(recv[c].wasQ)>>)
    /\ NoDup(taken)
    /\ \A k \in 1..Len(worker_channels) : NoDup(delivered[k])
    /\ (~crashed /\ channel.stop /\ mn.pc = "recv" => ENABLED MainRecieve)
    /\ (~crashed /\ channel.stop /\ mn.pc = "recv1" => ENABLED MainRecieve1)
    /\ \A k \in 1..Len(wk) :
          (~crashed /\ worker_channels[k].stop /\ wk[k].pc = "loop")
              => ENABLED WorkerLoop(k)

StoppedRecieveDrainsWitness ==
    /\ recv[0].called /\ recv[0].wasStopped /\ recv[0].wasQ = <<>> /\ ~recv[0].ok
    /\ Len(taken) >= 1
    /\ \E k \in 1..Len(wk) :
          recv[k].called /\ recv[k].wasStopped /\ recv[k].wasQ = <<>> /\ ~recv[k].ok

\* C8: send_stop is idempotent and irreversible: the reader's second send_stop
\* on the end-of-interval path (line 387 after line 345) leaves the channel
\* exactly as it was, and a stopped channel never becomes open again.
SendStopIdempotent ==
    [][ /\ (rd.pc = "final" /\ rd'.pc = "done" /\ rd.finished) =>
              (channel.stop /\ channel' = channel)
        /\ (channel.stop => channel'.stop)
        /\ \A k \in 1..Len(worker_channels) :
              worker_channels[k].stop => worker_channels'[k].stop ]_vars

SendStopTwiceWitness ==
    /\ rd.pc = "done" /\ rd.finished
    /\ channel.stop
    /\ mn.pc = "returned"

\* C9: for every skip < 1 is_frame_valid decides as if there were no skip
\* term: it is true exactly when the first_frame and first_time terms hold
\* (and the call never divides by a non-positive stride).
SkipBelowOneDisabled ==
    (probe.fn = "is_frame_valid" /\ cfg.skip < 1) =>
        probe.result =
            (IF /\ (cfg.first_frame = -1 \/ probe.fr >= cfg.first_frame)
                /\ (cfg.first_time = -1 \/ probe.t >= cfg.first_time)
             THEN "true" ELSE "false")

\* C10: with skip >= 1, is_frame_valid(frame_index, time) is true iff
\* (first_frame unset or frame_index >= first_frame) and (first_time unset or
\* time >= first_time) and frame_index mod skip = 0, the stride being counted
\* on the absolute frame index.
ValidIffInRangeOnStride ==
    (probe.fn = "is_frame_valid" /\ cfg.skip >= 1) =>
        /\ probe.result \in {"true", "false"}
        /\ probe.result = "true" <=>
              /\ (cfg.first_frame = -1 \/ probe.fr >= cfg.first_frame)
              /\ (cfg.first_time = -1 \/ probe.t >= cfg.first_time)
              /\ probe.fr % cfg.skip = 0

ValidOnStrideWitness ==
    /\ probe.fn = "is_frame_valid"
    /\ cfg.skip = 2 /\ cfg.first_frame = 1 /\ cfg.first_time = 1
    /\ probe.fr = 2 /\ probe.t = 1
    /\ probe.result = "true"

\* C11: is_end_of_interval(fr, t) is true exactly when last_frame is set and
\* fr is beyond it, or last_time is set and t is beyond it; with both bounds
\* unset it is false for every frame.
EndIffBeyondSetBound ==
    probe.fn = "is_end_of_interval" =>
        /\ (probe.result = "true") <=>
              \/ (cfg.last_frame # -1 /\ probe.fr > cfg.last_frame)
              \/ (cfg.last_time # -1 /\ probe.t > cfg.last_time)
        /\ (cfg.last_frame = -1 /\ cfg.last_time = -1) => probe.result = "false"

\* a frame beyond no given bound but whose time is above the unset last_time
EndIffBeyondSetBoundWitness ==
    /\ probe.fn = "is_end_of_interval"
    /\ cfg.last_frame = -1 /\ cfg.last_time = -1
    /\ probe.t > cfg.last_time
    /\ probe.result = "false"

\* the errors of the configuration that run() throws (lines 124, 166, 212-215)
ConfigErrors ==
    {"No consumers are connected to trajectory processor!",
     "At least one trajectory file is required!"} \cup RangeErrors

\* C12: when run() fails because last_frame < first_frame, or because
\* last_time < first_time, with both bounds given, no file was opened and no
\* other I/O was done before the failure: nothing was loaded, and the system
\* of every consumer is as it was before run().
RangeErrorBeforeAnyIO ==
    (mn.pc = "threw" /\ mn.error \in RangeErrors) =>
        /\ io = <<>>
        /\ \A i \in 1..Len(sys) : sys[i] = InitialSystem

\* C13: when run() ends with an error of the configuration (no consumer, no
\* trajectory file, invalid frame range, invalid time range), the reader
\* thread was never started, no worker thread or worker channel was created,
\* no hook of any consumer was called and no trajectory file was opened.
ConfigErrorBeforeThreads ==
    (mn.pc = "threw" /\ mn.error \in ConfigErrors) =>
        /\ rd = ReaderInit
        /\ wk = <<>> /\ worker_channels = <<>>
        /\ \A i \in 1..Len(hooks) : hooks[i] = <<>>
        /\ \A k \in 1..Len(io) : io[k].ev \notin {"open", "read"}
        /\ published = <<>>

\* run() has thrown for an invalid range with two consumers registered
ConfigErrorBeforeThreadsWitness ==
    /\ mn.pc = "threw" /\ mn.error \in RangeErrors
    /\ Len(consumers) = 2
    /\ rd.pc = "off"

\* the frames read so far, in the order they were read
IsRead(e) == e.ev = "read"

FramesRead == SelectSeq(io, IsRead)

\* C14: the k-th frame read has absolute index k - 1, over all files and
\* without a restart at a file boundary, and the j-th published envelope has
\* valid-frame ordinal j - 1.
OrdinalsCountFromZero ==
    /\ \A k \in 1..Len(FramesRead) : FramesRead[k].abs = k - 1
    /\ \A j \in 1..Len(published) : published[j].valid_frame = j - 1
    /\ \A j \in 1..Len(published) :
          \E k \in 1..Len(FramesRead) :
              /\ FramesRead[k].decision = "valid"
              /\ FramesRead[k].abs = published[j].absolute_frame

\* the third frame read is in the second file, and the second envelope
\* published is that frame: the first frame read was not valid
OrdinalsCountFromZeroWitness ==
    /\ Len(FramesRead) = 3 /\ FramesRead[3].n = 2
    /\ Len(published) = 2
    /\ published[2].absolute_frame = 2 /\ published[2].valid_frame = 1

\* the time custom_start_time and custom_dt give to the frame of index abs
CustomTime(abs) == cfg.custom_start_time + cfg.custom_dt * abs

\* what the filter decides for frame abs at time t
Decision(abs, t) ==
    IF is_end_of_interval(abs, t) THEN "end"
    ELSE IF is_frame_valid(abs, t) = "true" THEN "valid" ELSE "invalid"

\* C15: when custom_dt is set, every frame read is given the time
\* custom_start_time + custom_dt * absolute index before the filter sees it:
\* the filter decides on that time, and the metadata published carry it.
CustomTimeOverrides ==
    cfg.custom_dt >= 0 =>
        /\ \A k \in 1..Len(FramesRead) :
              LET e == FramesRead[k] IN
              /\ e.t = CustomTime(e.abs)
              /\ e.decision = Decision(e.abs, CustomTime(e.abs))
        /\ \A j \in 1..Len(published) :
              LET d == published[j] IN
              /\ d.absolute_time = CustomTime(d.absolute_frame)
              /\ d.last_time = d.absolute_time
              /\ d.first_time = CustomTime(d.first_frame)

\* start 1 and dt 2: frame 1 is published with time 3, and frame 2, of time 5,
\* ends the interval last_time = 4 that no time stored in a file exceeds
CustomTimeOverridesWitness ==
    /\ cfg.custom_start_time = 1 /\ cfg.custom_dt = 2 /\ cfg.last_time = 4
    /\ Len(published) = 2 /\ published[2].absolute_time = 3
    /\ Len(FramesRead) = 3
    /\ FramesRead[3].t = 5 /\ FramesRead[3].decision = "end"

\* C16: the first frame for which is_end_of_interval is true stops the
\* reader for good: it has sent end of stream, it reads no further frame and
\* opens no further file, and neither that frame nor a later one is
\* published, also when a later frame would lie inside the interval again.
EndOfIntervalIsHardStop ==
    \A k \in 1..Len(io) :
        (io[k].ev = "read" /\ io[k].decision = "end") =>
            /\ k = Len(io)
            /\ channel.stop
            /\ rd.finished /\ rd.pc \in {"final", "done"}
            /\ \A j \in 1..Len(published) : published[j].absolute_frame < io[k].abs

\* the reader is done after a frame of the first file ended the interval;
\* the second file was never opened and its frame lies inside the interval
EndOfIntervalIsHardStopWitness ==
    /\ rd.pc = "done" /\ io # <<>>
    /\ io[Len(io)].ev = "read" /\ io[Len(io)].decision = "end" /\ io[Len(io)].n = 1
    /\ Len(traj_files) = 2
    /\ Decision(io[Len(io)].abs + 1, FrameTime(traj_files[2][1], io[Len(io)].abs + 1))
          = "valid"

\* C17: once the reader thread was started, run() is left, by its return or
\* by what a hook of the single consumer throws, only after the reader thread
\* has ended and was joined, and in the fan-out after every worker thread has
\* ended: no thread run() started is running when run() is left.
RunLeftAfterJoins ==
    (mn.pc \in {"returned", "threw"} /\ rd.pc # "off") =>
        /\ rd.pc = "done"
        /\ \A w \in 1..Len(wk) : wk[w].pc = "done"

\* the envelopes delivered to consumer i: what run() received in the
\* single-consumer path, what worker i received in the fan-out
DeliveredTo(i) ==
    IF NConsumers = 1 THEN taken
    ELSE IF i <= Len(delivered) THEN delivered[i] ELSE <<>>

\* the channel consumer i is fed from
ChannelOf(i) == IF NConsumers = 1 THEN channel ELSE worker_channels[i]

\* the hook calls of consumer i so far are pre_process, then consume_frame
\* on the envelopes delivered, in order, then post_process
HooksWellFormed(i) ==
    LET h == hooks[i]
        d == DeliveredTo(i)
        n == Len(h)
        post == n >= 1 /\ h[n].hook = "post_process"
        calls == IF post THEN n - 2 ELSE n - 1
    IN  /\ n >= 1 => h[1] = Hook("pre_process", NoInfo)
        /\ calls <= Len(d)
        /\ \A j \in 1..calls : h[j + 1] = Hook("consume_frame", d[j])
        /\ post => /\ calls = Len(d)
                   /\ ChannelOf(i).stop /\ ChannelOf(i).q = <<>>
                   /\ d # <<>> => h[n].info = d[Len(d)]
        /\ mn.pc = "returned" => post

\* C18: for every consumer, in both paths, the hook calls are pre_process
\* once, then consume_frame once for each envelope delivered, in the order of
\* delivery, then post_process once: post_process is called (the process is
\* not killed in its place), only after the consumer's channel is closed and
\* empty, and on the metadata of the last envelope delivered; when run() has
\* returned the sequence is complete.
HooksInOrder ==
    /\ \A i \in 1..Len(hooks) : HooksWellFormed(i)
    /\ ~(crashed /\ mn.pc = "post1")

\* C19: in the single-consumer path, when no envelope was delivered,
\* post_process is still called exactly once, on the indicator that no frame
\* was delivered and not through an absent envelope, and run() goes on to
\* its normal end: the process is not killed.
NoFramesPostProcess ==
    (/\ NConsumers = 1 /\ src.hookfail = "none"
     /\ taken = <<>>
     /\ mn.pc \in {"post1", "join_reader", "returned"}) =>
        /\ ~crashed
        /\ mn.pc # "post1" =>
              hooks[1] = <<Hook("pre_process", NoInfo), Hook("post_process", NoInfo)>>

\* C20: in the fan-out run() calls send_stop on every worker channel exactly
\* once, and only after the reader's channel is closed and empty and every
\* envelope the reader published was sent to every worker channel; past
\* the loop of stops every worker channel was stopped.
StopEachOnceAfterAll ==
    /\ Len(stops) = Len(worker_channels)
    /\ \A k \in 1..Len(stops) :
          /\ stops[k] <= 1
          /\ worker_channels[k].stop <=> stops[k] = 1
          /\ stops[k] >= 1 =>
                /\ channel.stop /\ channel.q = <<>>
                /\ Len(forwarded) = NConsumers
                /\ \A j \in 1..Len(forwarded) : forwarded[j] = published
          /\ mn.pc \in {"join_reader", "join_workers", "returned"} => stops[k] = 1

\* three worker channels were stopped after two envelopes went to each
StopEachOnceAfterAllWitness ==
    /\ mn.pc = "returned"
    /\ Len(stops) = 3 /\ \A k \in 1..3 : stops[k] = 1
    /\ Len(published) = 2 /\ \A j \in 1..3 : forwarded[j] = published

IsReaderThread(th) == th.body = "reader_thread_body"
IsWorkerThread(th) == th.body = "run_in_thread"

ReaderThreads == SelectSeq(threads, IsReaderThread)
WorkerThreads == SelectSeq(threads, IsWorkerThread)

\* C21: a run starts exactly one reader thread. With one consumer it starts
\* no other thread and every hook is called on the thread that called run().
\* With N >= 2 consumers it starts exactly N worker threads, one for each
\* consumer and each on a channel of its own, and the hooks of a consumer are
\* called on its worker thread.
ThreadsOfRun ==
    /\ Len(ReaderThreads) = (IF rd.pc = "off" THEN 0 ELSE 1)
    /\ Len(WorkerThreads) = Len(wk)
    /\ NConsumers = 1 =>
          /\ WorkerThreads = <<>>
          /\ callers[1] \subseteq {RunThread}
    /\ (NConsumers >= 2 /\ mn.pc \notin {"idle", "threw", "spawn"}) =>
          /\ Len(WorkerThreads) = NConsumers
          /\ \A i \in 1..NConsumers :
                \E k \in 1..Len(WorkerThreads) : WorkerThreads[k].consumer = i
    /\ \A j, k \in 1..Len(WorkerThreads) :
          j # k => /\ WorkerThreads[j].consumer # WorkerThreads[k].consumer
                   /\ WorkerThreads[j].ch # WorkerThreads[k].ch
    /\ NConsumers >= 2 =>
          \A i \in 1..Len(callers) :
              \A w \in callers[i] : w \in 1..Len(wk) /\ wk[w].consumer = i

\* a run of three consumers has returned: four threads were started and the
\* hooks of the third consumer ran on the third worker thread
ThreadsOfRunWitness ==
    /\ mn.pc = "returned"
    /\ NConsumers = 3 /\ Len(threads) = 4
    /\ callers[3] = {3} /\ Len(hooks[3]) >= 3

\* C22: only the system of the first consumer is cleared and loaded from the
\* structure and topology files, every other consumer's system is assigned a
\* copy of it, and the copies are made before the reader thread or a worker
\* thread is started: once a thread runs, all consumers hold equal systems,
\* each in its own object, and each file was loaded once.
SystemsCopiedBeforeThreads ==
    threads # <<>> =>
        /\ Len(sys) = NConsumers
        /\ \A i \in 1..NConsumers : sys[i] = SystemFiles
        /\ io # <<>> /\ SubSeq(io, 1, Len(LoadEvents)) = LoadEvents
        /\ \A k \in (Len(LoadEvents) + 1)..Len(io) :
              io[k].ev \notin {"load_structure", "load_topology"}

\* three consumers hold the loaded structure when the reader thread starts
SystemsCopiedBeforeThreadsWitness ==
    /\ threads = <<ReaderThread>> /\ rd.pc = "open"
    /\ NConsumers = 3
    /\ sys[1] = <<"structure">> /\ sys[3] = sys[1]

\* C23: after any sequence of add_consumer calls the i-th registered
\* consumer, counted from 0, holds ordinal i; ordinals are pairwise distinct,
\* and a later registration leaves the consumers registered before as they
\* were.
OrdinalsByRegistration ==
    /\ [](/\ \A i \in 1..Len(consumers) : consumers[i].id = i - 1
          /\ \A i, j \in 1..Len(consumers) :
                i # j => consumers[i].id # consumers[j].id)
    /\ [][/\ Len(consumers') >= Len(consumers)
          /\ \A i \in 1..Len(consumers) : consumers'[i] = consumers[i]]_vars

\* three consumers are registered and the last holds ordinal 2
OrdinalsByRegistrationWitness ==
    /\ Len(consumers) = 3
    /\ consumers[3].id = 2 /\ consumers[1].id = 0

IsOpen(e) == e.ev = "open"

FilesOpened == SelectSeq(io, IsOpen)

\* the places of the trajectory files among the values of the option
RECURSIVE TrajectoryPlaces(_, _)
TrajectoryPlaces(values, i) ==
    IF i > Len(values) THEN <<>>
    ELSE (IF values[i].kind = "trajectory" THEN <<i>> ELSE <<>>)
            \o TrajectoryPlaces(values, i + 1)

\* the number of frames read from file n before entry k of io
ReadsBefore(k, n) ==
    Cardinality({ j \in 1..(k - 1) : io[j].ev = "read" /\ io[j].n = n })

\* C24: the trajectory files are opened one at a time, in the order they
\* appear in the trajectory option wherever the structure and topology
\* files stand among them: the k-th file opened is the k-th trajectory file
\* named and the frames read from it are its own, a file is opened only after
\* every frame of the file before it was read, and at most one is open.
FilesOpenedInOrder ==
    LET places == TrajectoryPlaces(src.files, 1) IN
    /\ Len(FilesOpened) <= Len(places)
    /\ \A k \in 1..Len(FilesOpened) : FilesOpened[k].n = k
    /\ \A j \in 1..Len(io) :
          /\ io[j].ev = "read" =>
                io[j].t = src.files[places[io[j].n]].frames[ReadsBefore(j, io[j].n) + 1]
          /\ (io[j].ev = "open" /\ io[j].n > 1) =>
                ReadsBefore(j, io[j].n - 1) = Len(src.files[places[io[j].n - 1]].frames)
    /\ Cardinality(rd.open) <= 1
    /\ rd.pc = "done" => rd.open = {}

\* the structure file is named between two trajectory files; the second was
\* opened, after the frame of the first, and a frame was read from it
FilesOpenedInOrderWitness ==
    /\ Len(src.files) = 3
    /\ src.files[1].kind = "trajectory" /\ src.files[2].kind = "structure"
    /\ src.files[3].kind = "trajectory" /\ src.files[3] # src.files[1]
    /\ Len(FilesOpened) = 2 /\ rd.open = {2}
    /\ io[Len(io)].ev = "read" /\ io[Len(io)].n = 2

\* C25: in the single-consumer path what a hook of the consumer throws is
\* not caught by run(): once the failing hook was called run() has been left
\* with that failure, and no hook is called after it.
HookFailurePropagates ==
    (NConsumers = 1 /\ hooks[1] # <<>>
        /\ hooks[1][Len(hooks[1])].hook = src.hookfail) =>
            /\ mn.pc = "threw"
            /\ mn.error = ConsumerError

\* post_process threw after pre_process and a consume_frame had returned
HookFailurePropagatesWitness ==
    /\ src.hookfail = "post_process"
    /\ mn.pc = "threw" /\ mn.error = ConsumerError
    /\ Len(hooks[1]) >= 3 /\ hooks[1][Len(hooks[1])].hook = "post_process"

\* the time the reader gives to the frame of index k of the run
TimeOfFrame(k) == FrameTime(Flatten(traj_files)[k + 1], k)

EndsInterval(k) == is_end_of_interval(k, TimeOfFrame(k))

\* the index of the first frame of the run past the interval, or the number
\* of frames when there is none
FirstEnd ==
    LET n == Len(Flatten(traj_files))
        ends == { k \in 0..(n - 1) : EndsInterval(k) }
    IN  IF ends = {} THEN n ELSE CHOOSE k \in ends : \A e \in ends : k <= e

IsAccepted(k) == is_frame_valid(k, TimeOfFrame(k)) = "true"

\* the indexes of the frames before FirstEnd that are valid, in read order
Accepted == SelectSeq([i \in 1..FirstEnd |-> i - 1], IsAccepted)

PublishedIndexes == [j \in 1..Len(published) |-> published[j].absolute_frame]

\* C26: in a run without read failure the envelopes published are, in read
\* order and each once, the frames that come before the first frame past the
\* interval and that are valid, under the index each has among all frames
\* read: a rejected frame is not published and still counts.
PublishedAreAccepted ==
    (src.fail = -1 /\ rd.pc # "off") =>
        /\ IsPrefix(PublishedIndexes, Accepted)
        /\ rd.pc = "done" => PublishedIndexes = Accepted
        /\ Len(FramesRead) <= FirstEnd + 1

\* the reader is done; the first frame was rejected and a later one published
PublishedAreAcceptedWitness ==
    /\ src.fail = -1 /\ rd.pc = "done"
    /\ published # <<>> /\ published[1].absolute_frame > 0
    /\ Len(FramesRead) > Len(published)
    /\ PublishedIndexes = Accepted

\* C27: is_end_of_interval is looked at before is_frame_valid on every frame
\* read: a frame past last_frame or last_time ends the run also when
\* is_frame_valid would reject it.
EndBeforeValidity ==
    \A k \in 1..Len(FramesRead) :
        LET e == FramesRead[k] IN
        /\ is_end_of_interval(e.abs, e.t) => e.decision = "end" /\ k = Len(FramesRead)
        /\ e.decision = "end" => rd.finished /\ channel.stop

\* the frame that ended the run is off the stride
EndBeforeValidityWitness ==
    /\ FramesRead # <<>>
    /\ LET e == FramesRead[Len(FramesRead)] IN
       /\ e.decision = "end"
       /\ cfg.skip = 2 /\ CRem(e.abs, cfg.skip) # 0
       /\ is_frame_valid(e.abs, e.t) = "false"
    /\ rd.pc = "done"

\* C28: in every published envelope last_frame and last_time are its own
\* absolute_frame and absolute_time; first_frame and first_time are the index
\* and time of the envelope of valid-frame ordinal 0, the same in every
\* envelope of the run; first_frame <= absolute_frame; and the window sizes
\* are the configured ones.
MetadataOfRun ==
    \A j \in 1..Len(published) :
        LET d == published[j] IN
        /\ d.last_frame = d.absolute_frame
        /\ d.last_time = d.absolute_time
        /\ published[1].valid_frame = 0
        /\ d.first_frame = published[1].absolute_frame
        /\ d.first_time = published[1].absolute_time
        /\ d.first_frame <= d.absolute_frame
        /\ d.win_size_frames = opt.window_size_frames
        /\ d.win_size_time = opt.window_size_time

\* the second envelope of a run with window_size_frames given carries the
\* index of the first one, which is not the first frame read
MetadataOfRunWitness ==
    /\ Len(published) = 2
    /\ published[2].first_frame = published[1].absolute_frame
    /\ published[2].first_frame < published[2].absolute_frame
    /\ published[1].absolute_frame > 0
    /\ published[2].win_size_frames = 2

\* C29: on every way out of the reader thread, the files exhausted, the end
\* of the interval reached or a failure of any kind raised while reading,
\* end of stream was sent on the reader's channel and no failure left the
\* thread: the process is not terminated by the reader.
ReaderFailureContained ==
    /\ rd.pc # "escaped"
    /\ rd.pc = "done" => channel.stop

\* C30: an envelope is not modified after it was sent on the reader's
\* channel: every envelope published is an object of its own, it still holds
\* what was published, and what run() forwarded and every consumer was
\* delivered is that same content.
EnvelopesImmutable ==
    /\ Len(sent) = Len(published)
    /\ \A i, j \in 1..Len(sent) : i # j => sent[i] # sent[j]
    /\ \A j \in 1..Len(sent) : envelopes[sent[j]] = published[j]
    /\ \A k \in 1..Len(forwarded) :
          \A j \in 1..Len(forwarded[k]) : forwarded[k][j] = envelopes[sent[j]]
    /\ \A i \in 1..Len(hooks) :
          \A j \in 1..Len(Consumed(hooks[i])) :
              Consumed(hooks[i])[j] = envelopes[sent[j]]

\* two consumers; a frame was rejected, so the envelopes published are not
\* the first ones allocated, and both were forwarded to the second channel
EnvelopesImmutableWitness ==
    /\ NConsumers = 2
    /\ Len(sent) = 2 /\ sent[1] > 1
    /\ Len(forwarded) = 2 /\ forwarded[2] = published
    /\ Len(Consumed(hooks[2])) = 2

\* consumer number i (from 1) will be given no more frames: run() has left
\* its loops (one consumer), its worker was told its channel is closed
StreamEnded(i) ==
    IF NConsumers = 1 THEN mn.pc \in {"post1", "join_reader", "returned"}
    ELSE i <= Len(wk) /\ wk[i].pc \in {"post", "done"}

\* C31: log_interval has no effect on what is delivered. Under every value of
\* log_interval, and whatever the reader has printed, every consumer is given
\* through consume_frame a prefix of the sequence which the source and the
\* selection range alone determine, and all of it once its stream has ended:
\* two runs that differ in log_interval only deliver the same envelopes.
LogIntervalNoEffect ==
    Started =>
        \A i \in 1..NConsumers :
            /\ IsPrefix(Consumed(hooks[i]), Expected)
            /\ (StreamEnded(i) => Consumed(hooks[i]) = Expected)

LogIntervalNoEffectWitness ==
    /\ log_interval > 0
    /\ Len(rd.logged) >= 2
    /\ NConsumers = 2
    /\ mn.pc = "returned"
    /\ Len(Expected) >= 2
    /\ \A i \in 1..NConsumers : Consumed(hooks[i]) = Expected

MissingSystemFile == "Structure AND/OR topology file is required!"

\* C32: when the trajectory option names trajectory files but neither a
\* structure file nor a topology file, run() ends with the error "Structure
\* AND/OR topology file is required!", no thread was started and no frame
\* was read.
MissingSystemFileFails ==
    (mn.pc # "idle" /\ ~structure_file /\ ~top_file) =>
        /\ mn.pc = "threw"
        /\ mn.error = MissingSystemFile
        /\ threads = <<>>
        /\ FramesRead = <<>>

\* run() has read the options of the range (lines 197-209)
OptionsRead ==
    /\ mn.pc # "idle"
    /\ NConsumers > 0 /\ ClassifyError(src.files) = "" /\ traj_files # <<>>

\* the time stored in the source for the frame of index abs
EmbeddedTime(abs) == Flatten(traj_files)[abs + 1]

\* every frame read was given, and every envelope published carries, the
\* time start + dt * index
TimesAre(start, dt) ==
    /\ \A k \in 1..Len(FramesRead) :
          FramesRead[k].t = start + dt * FramesRead[k].abs
    /\ \A j \in 1..Len(published) :
          published[j].absolute_time = start + dt * published[j].absolute_frame

\* C33: the defaults of the time override. With custom_start_time given
\* (>= 0) and custom_dt not given, custom_dt is 1 and the frames get the
\* times custom_start_time + index; with custom_dt given (>= 0) and
\* custom_start_time not given, custom_start_time is 0 and the frames get
\* custom_dt * index; with neither given the frames keep the times stored in
\* the source.
TimeOverrideDefaults ==
    OptionsRead =>
        /\ (opt.custom_start_time >= 0 /\ opt.custom_dt = -1) =>
                /\ cfg.custom_dt = 1
                /\ cfg.custom_start_time = opt.custom_start_time
                /\ TimesAre(opt.custom_start_time, 1)
        /\ (opt.custom_start_time = -1 /\ opt.custom_dt >= 0) =>
                /\ cfg.custom_start_time = 0
                /\ cfg.custom_dt = opt.custom_dt
                /\ TimesAre(0, opt.custom_dt)
        /\ (opt.custom_start_time = -1 /\ opt.custom_dt = -1) =>
                /\ cfg.custom_start_time = -1 /\ cfg.custom_dt = -1
                /\ \A k \in 1..Len(FramesRead) :
                      FramesRead[k].t = EmbeddedTime(FramesRead[k].abs)
                /\ \A j \in 1..Len(published) :
                      published[j].absolute_time =
                          EmbeddedTime(published[j].absolute_frame)

\* only custom_start_time = 1 was given: the last frame of a source whose
\* times restart at 0 in the second file was published with the time 1 + index
TimeOverrideDefaultsWitness ==
    /\ opt.custom_start_time = 1 /\ opt.custom_dt = -1
    /\ mn.pc = "returned"
    /\ Len(published) = MaxFrames
    /\ published[MaxFrames].absolute_time = MaxFrames
    /\ EmbeddedTime(MaxFrames - 1) = 0

\* run() was left, by its return or by a throw
RunLeft == mn.pc \in {"returned", "threw"}

\* the threads are scheduled fairly: a thread that can take its next step
\* takes it, and the caller registers its consumers and calls run()
WorkerStep(w) ==
    w \in 1..Len(wk) /\ (WorkerPre(w) \/ WorkerLoop(w) \/ WorkerPost(w))

Fairness ==
    /\ WF_vars(add_consumer) /\ WF_vars(run_setup)
    /\ WF_vars(Reader) /\ WF_vars(Main)
    /\ \A w \in 1..MaxConsumers : WF_vars(WorkerStep(w))

SpecFair == Init /\ [][Next]_vars /\ Fairness

\* under fair scheduling a run whose hooks return is left unless the process
\* was killed
LeftUnlessKilled == (src.hookfail = "none") => <>(RunLeft \/ crashed)

\* C34: a run whose hooks return never stops before run() is left: as long
\* as run() has not returned or thrown, some thread can take a step, so
\* that under fair scheduling run() ends with the reader and every worker
\* finished and joined.
RunNeverStuck ==
    src.hookfail = "none" => (RunLeft \/ ENABLED Next)

IsValidRead(e) == e.ev = "read" /\ e.decision = "valid"

\* the envelope the reader, or run() for worker channel k, is about to send
ReaderPending == IF rd.pc = "send" THEN 1 ELSE 0
ForwardPending(k) == IF mn.pc = "fwd" /\ k > mn.i THEN 1 ELSE 0

\* C35: no send is made on a channel after send_stop was called on it. When
\* the reader is about to send, its channel is open, and when run() is about
\* to forward, the worker channels are open; so no send returns without
\* enqueuing: every frame accepted was published, and every envelope run()
\* received was forwarded to every worker channel.
NoSendAfterStop ==
    /\ (rd.pc = "send" => ~channel.stop)
    /\ (mn.pc = "fwd" => \A k \in 1..Len(worker_channels) : ~worker_channels[k].stop)
    /\ Len(SelectSeq(io, IsValidRead)) = Len(published) + ReaderPending
    /\ \A k \in 1..Len(forwarded) :
          mn.pc # "spawn" => Len(taken) = Len(forwarded[k]) + ForwardPending(k)

\* the reader closed its channel at the end of the interval with frames of
\* the source still unread, run() closed both worker channels, and all that
\* was published before has reached both workers
NoSendAfterStopWitness ==
    /\ NConsumers = 2 /\ mn.pc = "returned"
    /\ rd.finished /\ channel.stop
    /\ Len(FramesRead) < TotalFrames(traj_files)
    /\ Len(published) >= 1
    /\ \A k \in 1..2 : worker_channels[k].stop /\ delivered[k] = published

\* recieve has told the thread that feeds consumer i that its channel is closed
ToldClosed(i) ==
    LET c == IF NConsumers = 1 THEN 0 ELSE i
    IN  recv[c].called /\ ~recv[c].ok

\* C36: what a consumer receives is determined by the source and the
\* selection range. In every run, whatever the interleaving of the threads,
\* the buffer_size and the number of consumers, the envelopes each consumer
\* has received are a prefix of the sequence the sequential reading of the
\* source gives, and the whole of it once the consumer was told that its
\* channel is closed.
ReceivedIsDetermined ==
    Started =>
        \A i \in 1..NConsumers :
            /\ IsPrefix(DeliveredTo(i), Expected)
            /\ (ToldClosed(i) => DeliveredTo(i) = Expected)

\* with the largest buffers, so that a whole source can be buffered before
\* anything is received, two consumers were told closed after a skipped frame
ReceivedIsDeterminedWitness ==
    /\ opt.buffer_size = MaxBuf
    /\ NConsumers = 2
    /\ Len(Expected) >= 2 /\ Len(FramesRead) > Len(Expected)
    /\ \A i \in 1..2 : ToldClosed(i) /\ DeliveredTo(i) = Expected

\* how far the reader is ahead of consumer i: the envelopes published that
\* consume_frame (one consumer) or the consumer's worker (fan-out) has not
\* been given yet
Lead(i) ==
    IF NConsumers = 1 THEN Len(published) - Len(Consumed(hooks[1]))
    ELSE Len(published) - Len(DeliveredTo(i))

ConfigErrorLeavesSystems ==
    (mn.pc = "threw" /\ mn.error \in ConfigErrors) =>
        \A i \in 1..NConsumers : sys[i] = InitialSystem

====
